---- MODULE Spec2Model ----
(***************************************************************************)
(* SJ Piano Academy payment tracker: the MCP tools of mcp_server.py and    *)
(* the step-by-step workflow of agent.py (SYSTEM_PROMPT) that drives them. *)
(*                                                                         *)
(* Text is modelled as sequences of one-character strings, a subject line  *)
(* as the sequence of its whitespace-separated words.  Time is one integer *)
(* clock (the finest unit the wall clock is read at); a calendar month is  *)
(* TicksPerMonth ticks long.  None is the empty set, a present value x is  *)
(* the set {x}.                                                            *)
(***************************************************************************)
EXTENDS Integers, Sequences, FiniteSets, TLC

VARIABLES directory, ledger, origin, receipts, clock, agent

vars == <<directory, ledger, origin, receipts, clock, agent>>

\* Python's None, and a value that is present
None == {}
Some(x) == {x}
Get(o) == CHOOSE x \in o : TRUE

-----------------------------------------------------------------------------
(* Bounds of the model *)

TicksPerMonth == 2
ClockSpan == 1
MaxBatch == 2
MaxInvoices == 2
MaxOverlapBatch == 1
MaxFragments == 5

(* Program constants *)

MonthsPerYear == 12

-----------------------------------------------------------------------------
(* Text *)

UpperLetters ==
  <<"A", "B", "C", "D", "E", "F", "G", "H", "I", "J", "K", "L", "M", "N", "O", "P", "Q", "R", "S", "T", "U", "V", "W", "X", "Y", "Z">>
LowerLetters ==
  <<"a", "b", "c", "d", "e", "f", "g", "h", "i", "j", "k", "l", "m", "n", "o", "p", "q", "r", "s", "t", "u", "v", "w", "x", "y", "z">>
DigitChars == <<"0", "1", "2", "3", "4", "5", "6", "7", "8", "9">>

IsDigit(c) == \E k \in 1..Len(DigitChars) : DigitChars[k] = c

DigitVal(c) == (CHOOSE k \in 1..Len(DigitChars) : DigitChars[k] = c) - 1

\* str.lower() on one character
LowerChar(c) ==
  IF \E k \in 1..Len(UpperLetters) : UpperLetters[k] = c
  THEN LowerLetters[CHOOSE k \in 1..Len(UpperLetters) : UpperLetters[k] = c]
  ELSE c

\* str.lower()
Lower(s) == [k \in 1..Len(s) |-> LowerChar(s[k])]

\* re.search(f"^{re.escape(lit)}$", s, IGNORECASE): the literal, anchored at
\* both ends, compared character by character without regard to case
\* variant: the same pattern without the "i" option
RegexWholeMatch_CaseSensitive(lit, s) == lit = s

RegexWholeMatchI(lit, s) ==
  /\ Len(s) = Len(lit)
  /\ \A k \in 1..Len(lit) : LowerChar(s[k]) = LowerChar(lit[k])

\* the value of a run of decimal digits
RECURSIVE DigitsToNat(_)
DigitsToNat(ds) ==
  IF Len(ds) = 0 THEN 0
  ELSE 10 * DigitsToNat(SubSeq(ds, 1, Len(ds) - 1)) + DigitVal(ds[Len(ds)])

\* str(n) for n >= 0
RECURSIVE NatToStr(_)
NatToStr(n) ==
  IF n < 10 THEN <<DigitChars[n + 1]>>
  ELSE Append(NatToStr(n \div 10), DigitChars[(n % 10) + 1])

\* " ".join(words)
RECURSIVE JoinWords(_)
JoinWords(ws) ==
  IF Len(ws) = 0 THEN <<>>
  ELSE IF Len(ws) = 1 THEN ws[1]
  ELSE ws[1] \o <<" ">> \o JoinWords(Tail(ws))

-----------------------------------------------------------------------------
(* Time *)

Year(t) == t \div (MonthsPerYear * TicksPerMonth)
Month(t) == ((t \div TicksPerMonth) % MonthsPerYear) + 1

\* datetime(year, month, 1, tzinfo=utc)
MonthStart(y, m) == (y * MonthsPerYear + (m - 1)) * TicksPerMonth

\* datetime.isoformat() and datetime.fromisoformat().astimezone(utc)
IsoFormat(t) == [year |-> Year(t), month |-> Month(t), rest |-> t % TicksPerMonth]
FromIsoFormat(iso) == MonthStart(iso.year, iso.month) + iso.rest

\* the model's clock starts at the last tick of a December
StartClock == MonthStart(1, 1) - 1
MaxClock == StartClock + ClockSpan

-----------------------------------------------------------------------------
(* Extraction helpers of mcp_server.py *)

IsLetter(c) ==
  \/ \E k \in 1..Len(UpperLetters) : UpperLetters[k] = c
  \/ \E k \in 1..Len(LowerLetters) : LowerLetters[k] = c

\* the regular expression classes \w, [\w.\-+] and [\w.\-]
IsWordChar(c) == IsLetter(c) \/ IsDigit(c) \/ c = "_"
IsLocalChar(c) == IsWordChar(c) \/ c \in {".", "-", "+"}
IsDomainChar(c) == IsWordChar(c) \/ c \in {".", "-"}

SetMin(S) == CHOOSE x \in S : \A y \in S : x <= y
SetMax(S) == CHOOSE x \in S : \A y \in S : x >= y

\* lit in s
Contains(s, lit) ==
  \E k \in 0..(Len(s) - Len(lit)) : SubSeq(s, k + 1, k + Len(lit)) = lit

StartsWithI(w, lit) ==
  Len(w) >= Len(lit) /\ Lower(SubSeq(w, 1, Len(lit))) = lit

EndsWithI(w, lit) ==
  Len(w) >= Len(lit) /\ Lower(SubSeq(w, Len(w) - Len(lit) + 1, Len(w))) = lit

W_received == <<"r", "e", "c", "e", "i", "v", "e", "d">>
W_from == <<"f", "r", "o", "m">>
W_and == <<"a", "n", "d">>
W_it == <<"i", "t">>
W_has == <<"h", "a", "s">>
W_been == <<"b", "e", "e", "n">>
W_automatically == <<"a", "u", "t", "o", "m", "a", "t", "i", "c", "a", "l", "l", "y">>
W_deposited == <<"d", "e", "p", "o", "s", "i", "t", "e", "d">>

\* last index of the run of digits, of [\w.\-] characters, that starts at k
DigitRunEnd(s, k) == SetMax({e \in k..Len(s) : \A j \in k..e : IsDigit(s[j])})
DomainRunEnd(s, k) == SetMax({e \in k..Len(s) : \A j \in k..e : IsDomainChar(s[j])})

\* _extract_reply_to: the first [\w.\-+]+@[\w.\-]+ of the Reply-To value,
\* the value itself when it holds none, None when there is no such header
extract_reply_to(header) ==
  IF header = None THEN None
  ELSE LET h == Get(header)
           ats == {k \in 2..(Len(h) - 1) :
                     h[k] = "@" /\ IsLocalChar(h[k - 1]) /\ IsDomainChar(h[k + 1])}
       IN IF ats = {} THEN Some(h)
          ELSE LET k == SetMin(ats)
                   s == SetMin({b \in 1..(k - 1) : \A j \in b..(k - 1) : IsLocalChar(h[j])})
                   e == DomainRunEnd(h, k + 1)
               IN Some(SubSeq(h, s, e))

\* _extract_date_received: a Date header is absent (None), unparsable
\* ("bad") or a local time with its zone offset; the result is in UTC
extract_date_received(header) ==
  IF header = None THEN None
  ELSE IF Get(header).kind = "bad" THEN None
  ELSE Some(Get(header).local - Get(header).offset)

\* float(): whole part and fraction digits, trailing zeros dropped
RECURSIVE StripZeros(_)
StripZeros(ds) ==
  IF Len(ds) > 0 /\ ds[Len(ds)] = "0" THEN StripZeros(SubSeq(ds, 1, Len(ds) - 1))
  ELSE ds

Float(whole, frac) == [whole |-> DigitsToNat(whole), frac |-> StripZeros(frac)]

\* _parse_amount: re.search(r"\$(\d+(?:\.\d+)?)", subject)
parse_amount(subject) ==
  LET s == JoinWords(subject)
      ks == {k \in 1..(Len(s) - 1) : s[k] = "$" /\ IsDigit(s[k + 1])}
  IN IF ks = {} THEN None
     ELSE LET k == SetMin(ks)
              e == DigitRunEnd(s, k + 1)
              hasFrac == e + 2 <= Len(s) /\ s[e + 1] = "." /\ IsDigit(s[e + 2])
              f == IF hasFrac THEN DigitRunEnd(s, e + 2) ELSE e
          IN Some(Float(SubSeq(s, k + 1, e),
                        IF hasFrac THEN SubSeq(s, e + 2, f) ELSE <<>>))

\* a word that is "$" followed by one or more of [\d.]
IsAmountWord(w) ==
  /\ Len(w) >= 2
  /\ w[1] = "$"
  /\ \A j \in 2..Len(w) : IsDigit(w[j]) \/ w[j] = "."

\* the words p and q of a subject between which the payer name stands:
\* "received" $<amount> "from" <name> "and" "it" "has" "been"
NameFrame(subject, p, q) ==
  /\ p + 4 <= q
  /\ q + 3 <= Len(subject)
  /\ EndsWithI(subject[p], W_received)
  /\ IsAmountWord(subject[p + 1])
  /\ Lower(subject[p + 2]) = W_from
  /\ Lower(subject[q]) = W_and
  /\ Lower(subject[q + 1]) = W_it
  /\ Lower(subject[q + 2]) = W_has
  /\ StartsWithI(subject[q + 3], W_been)

\* variant: the name group as long as possible
parse_parent_name_Greedy(subject) ==
  LET ps == {p \in 1..Len(subject) : \E q \in 1..Len(subject) : NameFrame(subject, p, q)}
  IN IF ps = {} THEN None
     ELSE LET p == SetMin(ps)
              q == SetMax({x \in 1..Len(subject) : NameFrame(subject, p, x)})
          IN Some(JoinWords(SubSeq(subject, p + 3, q - 1)))

\* _parse_parent_name: the leftmost match, its name group as short as possible
parse_parent_name(subject) ==
  LET ps == {p \in 1..Len(subject) : \E q \in 1..Len(subject) : NameFrame(subject, p, q)}
  IN IF ps = {} THEN None
     ELSE LET p == SetMin(ps)
              q == SetMin({x \in 1..Len(subject) : NameFrame(subject, p, x)})
          IN Some(JoinWords(SubSeq(subject, p + 3, q - 1)))

\* "automatically deposited" in subject.lower()
IsDepositSubject(subject) ==
  Contains(Lower(JoinWords(subject)), W_automatically \o <<" ">> \o W_deposited)

\* what search_interac_emails derives from one subject line and from one
\* Reply-To header
SubjectFields(subject) ==
  [deposit |-> IsDepositSubject(subject),
   parent_name |-> parse_parent_name(subject),
   amount |-> parse_amount(subject)]

ReplyToField(header) ==
  LET r == extract_reply_to(header)
  IN IF r = None \/ r = Some(<<>>)
     THEN (IF header = None THEN <<>> ELSE Get(header))
     ELSE Get(r)

-----------------------------------------------------------------------------
(* The tools of mcp_server.py.  Each operator gives the set of results the *)
(* tool can return for its arguments (find_one returns any one matching    *)
(* document); fail stands for an exception raised by the database, the     *)
(* PDF generator or the mail transport.                                    *)

\* BCC_EMAIL, the audit recipient
BCC_EMAIL == <<"b", "c", "c", "@", "s", "j">>

\* variant: a filter that leaves the amount out
StudentQueryMatches_NoAmount(doc, parent_name, reply_to_email, amount_str) ==
  /\ Lower(doc.ParentName) = Lower(parent_name)
  /\ Lower(doc.email) = Lower(reply_to_email)

\* the filter of find_student_by_parent on one pianostudents document
StudentQueryMatches(doc, parent_name, reply_to_email, amount_str) ==
  /\ RegexWholeMatchI(parent_name, doc.ParentName)
  /\ RegexWholeMatchI(reply_to_email, doc.email)
  /\ doc.amount = amount_str

\* variant: the student is returned with the email of the query
find_student_by_parent_EchoEmail(dir, parent_name, reply_to_email, amount, fail) ==
  IF fail \/ parent_name = None \/ reply_to_email = None \/ amount = None
  THEN {[status |-> "error", student |-> None, message |-> None]}
  ELSE LET amount_str == NatToStr(Get(amount).whole)
           found == {doc \in dir :
                       StudentQueryMatches(doc, Get(parent_name),
                                           Get(reply_to_email), amount_str)}
       IN IF found = {}
          THEN {[status |-> "not_found", student |-> None,
                 message |-> Some([parent |-> Get(parent_name),
                                   email |-> Get(reply_to_email),
                                   amount |-> amount_str])]}
          ELSE {[status |-> "ok",
                 student |-> Some([doc EXCEPT !.email = Get(reply_to_email)]),
                 message |-> None] : doc \in found}

find_student_by_parent(dir, parent_name, reply_to_email, amount, fail) ==
  IF fail \/ parent_name = None \/ reply_to_email = None \/ amount = None
  THEN {[status |-> "error", student |-> None, message |-> None]}
  ELSE LET amount_str == NatToStr(Get(amount).whole)
           found == {doc \in dir :
                       StudentQueryMatches(doc, Get(parent_name),
                                           Get(reply_to_email), amount_str)}
       IN IF found = {}
          THEN {[status |-> "not_found", student |-> None,
                 message |-> Some([parent |-> Get(parent_name),
                                   email |-> Get(reply_to_email),
                                   amount |-> amount_str])]}
          ELSE {[status |-> "ok", student |-> Some(doc), message |-> None] :
                  doc \in found}

\* variant: a window that opens one month before the clock reading
start_of_month_Rolling(now) == now - TicksPerMonth

\* the window of check_invoice_exists: [start of this month, start of the next)
start_of_month(now) == MonthStart(Year(now), Month(now))

end_of_month(now) ==
  IF Month(now) = MonthsPerYear
  THEN MonthStart(Year(now) + 1, 1)
  ELSE MonthStart(Year(now), Month(now) + 1)

\* variant: a window that leaves out the month's first instant
InvoiceQueryMatches_ExclusiveStart(doc, student_email, now) ==
  /\ Lower(doc.students.email) = Lower(student_email)
  /\ doc.feepaiddate > MonthStart(Year(now), Month(now))
  /\ <<Year(doc.feepaiddate), Month(doc.feepaiddate)>> = <<Year(now), Month(now)>>

\* variant: a window that takes in the next month's first instant
InvoiceQueryMatches_InclusiveEnd(doc, student_email, now) ==
  /\ Lower(doc.students.email) = Lower(student_email)
  /\ \/ <<Year(doc.feepaiddate), Month(doc.feepaiddate)>> = <<Year(now), Month(now)>>
     \/ <<Year(doc.feepaiddate - 1), Month(doc.feepaiddate - 1)>> = <<Year(now), Month(now)>>

\* variant: only invoices for which a receipt went out count
InvoiceQueryMatches_ReceiptedOnly(doc, student_email, now) ==
  /\ Lower(doc.students.email) = Lower(student_email)
  /\ <<Year(doc.feepaiddate), Month(doc.feepaiddate)>> = <<Year(now), Month(now)>>
  /\ \E r \in 1..Len(receipts) : receipts[r].receipt_number = doc.invoicenumber

\* variant: the window applied to the date the invoice was issued
InvoiceQueryMatches_ByIssueDate(doc, student_email, now) ==
  /\ Lower(doc.students.email) = Lower(student_email)
  /\ <<Year(doc.dateissued), Month(doc.dateissued)>> = <<Year(now), Month(now)>>

\* the filter of check_invoice_exists on one invoices document
InvoiceQueryMatches(doc, student_email, now) ==
  /\ RegexWholeMatchI(student_email, doc.students.email)
  /\ doc.feepaiddate >= start_of_month(now)
  /\ doc.feepaiddate < end_of_month(now)

\* variant: a failed query answered as "no invoice"
check_invoice_exists_FailOpen(led, student_email, now, fail) ==
  IF fail \/ student_email = None
  THEN {[status |-> "ok", exists |-> FALSE, invoice |-> None]}
  ELSE LET found == {k \in 1..Len(led) :
                       InvoiceQueryMatches(led[k], Get(student_email), now)}
       IN IF found = {}
          THEN {[status |-> "ok", exists |-> FALSE, invoice |-> None]}
          ELSE {[status |-> "ok", exists |-> TRUE, invoice |-> Some(led[k])] :
                  k \in found}

check_invoice_exists(led, student_email, now, fail) ==
  IF fail \/ student_email = None
  THEN {[status |-> "error", exists |-> FALSE, invoice |-> None]}
  ELSE LET found == {k \in 1..Len(led) :
                       InvoiceQueryMatches(led[k], Get(student_email), now)}
       IN IF found = {}
          THEN {[status |-> "ok", exists |-> FALSE, invoice |-> None]}
          ELSE {[status |-> "ok", exists |-> TRUE, invoice |-> Some(led[k])] :
                  k \in found}

\* variant: the invoice takes the whole-number amount the lookup compared
InvoiceDoc_TruncatedAmount(student_name, student_email, amount, fee_paid_date_iso, now) ==
  [invoicenumber |-> NatToStr(now),
   students |-> [name |-> student_name, email |-> student_email],
   totalamount |-> [whole |-> amount.whole, frac |-> <<>>],
   feepaiddate |-> FromIsoFormat(fee_paid_date_iso),
   paymentstatus |-> "Paid",
   dateissued |-> now]

\* variant: the number taken from a clock read in tens of ticks
InvoiceDoc_CoarseNumber(student_name, student_email, amount, fee_paid_date_iso, now) ==
  [invoicenumber |-> NatToStr(now \div 10),
   students |-> [name |-> student_name, email |-> student_email],
   totalamount |-> amount,
   feepaiddate |-> FromIsoFormat(fee_paid_date_iso),
   paymentstatus |-> "Paid",
   dateissued |-> now]

\* the document create_invoice inserts
InvoiceDoc(student_name, student_email, amount, fee_paid_date_iso, now) ==
  [invoicenumber |-> NatToStr(now),
   students |-> [name |-> student_name, email |-> student_email],
   totalamount |-> amount,
   feepaiddate |-> FromIsoFormat(fee_paid_date_iso),
   paymentstatus |-> "Paid",
   dateissued |-> now]

\* variant: replace_one with upsert on the student's email
insert_one_Upsert(coll, doc) ==
  IF \E k \in 1..Len(coll) : coll[k].students.email = doc.students.email
  THEN [k \in 1..Len(coll) |->
          IF coll[k].students.email = doc.students.email THEN doc ELSE coll[k]]
  ELSE Append(coll, doc)

\* invoices_col.insert_one(doc)
insert_one(coll, doc) == Append(coll, doc)

\* variant: an insert guarded by the month of the payment, as a unique
\* index on student email and month would make it
create_invoice_Guarded(student_name, student_email, amount, fee_paid_date_iso, now, fail) ==
  IF \/ fail
     \/ student_name = None \/ student_email = None
     \/ amount = None \/ fee_paid_date_iso = None
  THEN [status |-> "error", invoice_number |-> None, doc |-> None]
  ELSE LET doc == InvoiceDoc(Get(student_name), Get(student_email), Get(amount),
                             Get(fee_paid_date_iso), now)
       IN IF \E k \in 1..Len(ledger) :
               /\ Lower(ledger[k].students.email) = Lower(doc.students.email)
               /\ Year(ledger[k].feepaiddate) = Year(doc.feepaiddate)
               /\ Month(ledger[k].feepaiddate) = Month(doc.feepaiddate)
          THEN [status |-> "error", invoice_number |-> None, doc |-> None]
          ELSE [status |-> "ok", invoice_number |-> Some(doc.invoicenumber),
                doc |-> Some(doc)]

\* variant: an invoice without a payment date is dated at its creation
create_invoice_DefaultDate(student_name, student_email, amount, fee_paid_date_iso, now, fail) ==
  IF \/ fail
     \/ student_name = None \/ student_email = None
     \/ amount = None
  THEN [status |-> "error", invoice_number |-> None, doc |-> None]
  ELSE LET iso == IF fee_paid_date_iso = None THEN IsoFormat(now) ELSE Get(fee_paid_date_iso)
           doc == InvoiceDoc(Get(student_name), Get(student_email), Get(amount), iso, now)
       IN [status |-> "ok", invoice_number |-> Some(doc.invoicenumber),
           doc |-> Some(doc)]

\* create_invoice: the result, and the document inserted when there is one
create_invoice(student_name, student_email, amount, fee_paid_date_iso, now, fail) ==
  IF \/ fail
     \/ student_name = None \/ student_email = None
     \/ amount = None \/ fee_paid_date_iso = None
  THEN [status |-> "error", invoice_number |-> None, doc |-> None]
  ELSE LET doc == InvoiceDoc(Get(student_name), Get(student_email), Get(amount),
                             Get(fee_paid_date_iso), now)
       IN [status |-> "ok", invoice_number |-> Some(doc.invoicenumber),
           doc |-> Some(doc)]

\* variant: the mail is handed over for the To address alone
ReceiptMail_ToOnly(student_name, student_email, amount, invoice_number, fee_paid_date_iso) ==
  LET fee_paid_date == FromIsoFormat(fee_paid_date_iso)
  IN [to |-> student_email,
      recipients |-> <<student_email>>,
      month_year |-> <<Month(fee_paid_date), Year(fee_paid_date)>>,
      receipt_number |-> invoice_number,
      paid_on |-> fee_paid_date,
      student_name |-> student_name,
      amount |-> amount]

\* the message send_thank_you_email hands to smtp.sendmail
ReceiptMail(student_name, student_email, amount, invoice_number, fee_paid_date_iso) ==
  LET fee_paid_date == FromIsoFormat(fee_paid_date_iso)
  IN [to |-> student_email,
      recipients |-> <<student_email, BCC_EMAIL>>,
      month_year |-> <<Month(fee_paid_date), Year(fee_paid_date)>>,
      receipt_number |-> invoice_number,
      paid_on |-> fee_paid_date,
      student_name |-> student_name,
      amount |-> amount]

send_thank_you_email(student_name, student_email, amount, invoice_number, fee_paid_date_iso, fail) ==
  IF \/ fail
     \/ student_name = None \/ student_email = None \/ amount = None
     \/ invoice_number = None \/ fee_paid_date_iso = None
  THEN [status |-> "error", mail |-> None]
  ELSE [status |-> "ok",
        mail |-> Some(ReceiptMail(Get(student_name), Get(student_email), Get(amount),
                                  Get(invoice_number), Get(fee_paid_date_iso)))]

-----------------------------------------------------------------------------
(* The inputs the model draws from *)

T_Ab == <<"A", "b">>
T_ab == <<"a", "b">>
T_mail == <<"a", "@", "b">>
T_MAIL == <<"A", "@", "b">>
T_other == <<"c", "@", "b">>
T_20 == <<"2", "0">>

\* pianostudents documents: a student, and a student of another family whose
\* parent's name and email begin like the first one's
Student1 == [ParentName |-> T_Ab, email |-> T_mail, amount |-> T_20, name |-> <<"k">>]
Student2 == [ParentName |-> T_Ab \o <<"c">>, email |-> T_mail \o <<"c">>, amount |-> T_20, name |-> <<"n">>]

Directories == {{Student1, Student2}, {Student2}}

\* "You have received <amount> from <name> and it has been automatically deposited"
DepositSubject(amount, name) ==
  <<<<"Y", "o", "u">>, <<"h", "a", "v", "e">>, W_received, amount, W_from, name,
    W_and, W_it, W_has, W_been, W_automatically, W_deposited>>

DateHeader(local, offset) == Some([kind |-> "time", local |-> local, offset |-> offset])

\* the messages the mailbox may hold when the clock reads now
RawPool(now) ==
  { [id |-> <<1, now>>,
     subject |-> DepositSubject(<<"$", "2", "0", ".", "9", "9">>, T_ab),
     reply_to |-> Some(T_Ab \o <<" ", "<">> \o T_MAIL \o <<">">>),
     date |-> DateHeader(now, 1)],
    [id |-> <<2, now>>,
     subject |-> DepositSubject(<<"$", "2", "0", ".", "4", "0">>, T_Ab),
     reply_to |-> Some(T_mail),
     date |-> DateHeader(now + 1, 0)],
    [id |-> <<3, now>>,
     subject |-> DepositSubject(<<"$", "1", "9", ".", "9", "9">>, T_Ab),
     reply_to |-> Some(T_mail),
     date |-> DateHeader(now, 0)],
    [id |-> <<4, now>>,
     subject |-> <<W_received, <<"$", "2", "0">>, W_automatically, W_deposited>>,
     reply_to |-> Some(T_mail),
     date |-> None],
    [id |-> <<5, now>>,
     subject |-> <<W_received, <<"$", "2", "0">>, W_from, T_Ab, W_and, W_it, W_has, W_been, W_deposited>>,
     reply_to |-> Some(T_mail),
     date |-> DateHeader(now, 0)],
    [id |-> <<6, now>>,
     subject |-> DepositSubject(<<"$", "2", "0", ".", "0", "0">>, T_Ab),
     reply_to |-> Some(T_mail),
     date |-> Some([kind |-> "bad"])],
    [id |-> <<7, now>>,
     subject |-> DepositSubject(<<"$", "2", "0">>, T_Ab),
     reply_to |-> Some(T_other),
     date |-> DateHeader(now, 0)] }

\* SubjectFields and ReplyToField of the pool's messages, evaluated once
PoolSubjectFields == [s \in {r.subject : r \in RawPool(0)} |-> SubjectFields(s)]
PoolReplyToField == [h \in {r.reply_to : r \in RawPool(0)} |-> ReplyToField(h)]

\* one entry of the list search_interac_emails returns
Notification(raw) ==
  LET d == extract_date_received(raw.date)
  IN [message_id |-> raw.id,
      subject |-> raw.subject,
      reply_to |-> PoolReplyToField[raw.reply_to],
      date_received |-> IF d = None THEN None ELSE Some(IsoFormat(Get(d))),
      parent_name |-> PoolSubjectFields[raw.subject].parent_name,
      amount |-> PoolSubjectFields[raw.subject].amount]

\* variant: messages whose subject gives no payer name are left out
RECURSIVE MatchedEmails_DropUnparsed(_)
MatchedEmails_DropUnparsed(msgs) ==
  IF Len(msgs) = 0 THEN <<>>
  ELSE IF /\ PoolSubjectFields[msgs[1].subject].deposit
          /\ PoolSubjectFields[msgs[1].subject].parent_name # None
       THEN <<Notification(msgs[1])>> \o MatchedEmails_DropUnparsed(Tail(msgs))
       ELSE MatchedEmails_DropUnparsed(Tail(msgs))

\* variant: no filter on the subject
MatchedEmails_NoSubjectFilter(msgs) == [k \in 1..Len(msgs) |-> Notification(msgs[k])]

RECURSIVE MatchedEmails(_)
MatchedEmails(msgs) ==
  IF Len(msgs) = 0 THEN <<>>
  ELSE IF PoolSubjectFields[msgs[1].subject].deposit
       THEN <<Notification(msgs[1])>> \o MatchedEmails(Tail(msgs))
       ELSE MatchedEmails(Tail(msgs))

\* variant: a failed retrieval reported as an empty listing
search_interac_emails_SwallowFailure(msgs, fail) ==
  IF fail \/ Len(msgs) = 0 THEN [status |-> "no_emails", emails |-> <<>>]
  ELSE [status |-> "ok", emails |-> MatchedEmails(msgs)]

\* search_interac_emails: what it returns for the messages the Gmail query lists
search_interac_emails(msgs, fail) ==
  IF fail THEN [status |-> "error", emails |-> <<>>]
  ELSE IF Len(msgs) = 0 THEN [status |-> "no_emails", emails |-> <<>>]
  ELSE [status |-> "ok", emails |-> MatchedEmails(msgs)]

\* the lists of up to MaxBatch distinct messages the Gmail query may return
Batches(now) ==
  UNION { {b \in [1..n -> RawPool(now)] : \A x, y \in 1..n : x # y => b[x] # b[y]} :
            n \in 0..MaxBatch }

-----------------------------------------------------------------------------
(* The agent of agent.py following SYSTEM_PROMPT, one tool call per step.  *)
(* calls is the log of the run's tool calls, as the agent prints them;     *)
(* listed (the messages the Gmail query listed) and origin (for each       *)
(* invoice of the ledger, the email it was created for) are history.       *)

Agents == {1, 2}

IdleAgent ==
  [pc |-> "idle", status |-> "none", listed |-> <<>>, emails |-> <<>>, i |-> 0,
   student |-> None, invno |-> None, outcomes |-> <<>>, calls |-> <<>>]

Init ==
  /\ directory \in Directories
  /\ ledger = <<>>
  /\ origin = <<>>
  /\ receipts = <<>>
  /\ clock = StartClock
  /\ agent = [a \in Agents |-> IdleAgent]

\* the wall clock advances
Tick ==
  /\ clock < MaxClock
  /\ clock' = clock + 1
  /\ UNCHANGED <<directory, ledger, origin, receipts, agent>>

Call(tool, i, status, info) == [tool |-> tool, i |-> i, status |-> status, info |-> info]

Outcome(i, disposition, reason, detail, nled, nrec) ==
  [i |-> i, disposition |-> disposition, reason |-> reason, detail |-> detail,
   nled |-> nled, nrec |-> nrec]

\* variant: an error outcome ends the run
Advance_AbortOnError(st, outcome, call) ==
  LET more == st.i < Len(st.emails) /\ outcome.disposition # "error"
  IN [st EXCEPT !.outcomes = Append(@, outcome),
                !.calls = Append(@, call),
                !.student = None,
                !.invno = None,
                !.i = IF more THEN st.i + 1 ELSE st.i,
                !.pc = IF more THEN "find" ELSE "done"]

\* variant: an email whose call failed is taken up again from its lookup
Advance_RetryOnError(st, outcome, call) ==
  IF outcome.disposition = "error"
  THEN [st EXCEPT !.student = None, !.invno = None, !.pc = "find"]
  ELSE [st EXCEPT !.outcomes = Append(@, outcome),
                  !.calls = Append(@, call),
                  !.student = None,
                  !.invno = None,
                  !.i = IF st.i < Len(st.emails) THEN st.i + 1 ELSE st.i,
                  !.pc = IF st.i < Len(st.emails) THEN "find" ELSE "done"]

\* the agent's state once email i has its outcome: on to the next email, or
\* to the final report after the last one
Advance(st, outcome, call) ==
  [st EXCEPT !.outcomes = Append(@, outcome),
             !.calls = Append(@, call),
             !.student = None,
             !.invno = None,
             !.i = IF st.i < Len(st.emails) THEN st.i + 1 ELSE st.i,
             !.pc = IF st.i < Len(st.emails) THEN "find" ELSE "done"]

\* STEP 1: search Gmail; with no emails found, report that and stop
SearchIn(a, batches) ==
  /\ agent[a].pc = "idle"
  /\ \E msgs \in batches, fail \in BOOLEAN :
       LET res == search_interac_emails(msgs, fail)
           st == [IdleAgent EXCEPT
                    !.listed = IF fail THEN <<>> ELSE msgs,
                    !.calls = <<Call("search_interac_emails", 0, res.status,
                                      [n |-> Len(res.emails), fault |-> fail])>>]
       IN agent' = [agent EXCEPT ![a] =
            IF res.status = "error"
            THEN [st EXCEPT !.pc = "done", !.status = "search_error"]
            ELSE IF Len(res.emails) = 0
            THEN [st EXCEPT !.pc = "done", !.status = "none_found"]
            ELSE [st EXCEPT !.pc = "find", !.status = "ok", !.i = 1,
                            !.emails = res.emails]]
  /\ UNCHANGED <<directory, ledger, origin, receipts, clock>>

Search(a) == SearchIn(a, Batches(clock))

\* STEP 2a: validate the student
Find(a) ==
  /\ agent[a].pc = "find"
  /\ LET st == agent[a]
         n == st.emails[st.i]
     IN \E fail \in BOOLEAN :
          \E res \in find_student_by_parent(directory, n.parent_name, Some(n.reply_to), n.amount, fail) :
            LET call == Call("find_student_by_parent", st.i, res.status,
                             [student |-> res.student, fault |-> fail,
                              nled |-> Len(ledger), nrec |-> Len(receipts)])
            IN agent' = [agent EXCEPT ![a] =
                 IF res.status = "ok"
                 THEN [st EXCEPT !.student = res.student, !.pc = "check",
                                 !.calls = Append(@, call)]
                 ELSE IF res.status = "not_found"
                 THEN Advance(st, Outcome(st.i, "skipped", "no_match", res.message,
                                          Len(ledger), Len(receipts)), call)
                 ELSE Advance(st, Outcome(st.i, "error", "find_student_by_parent", None,
                                          Len(ledger), Len(receipts)), call)]
  /\ UNCHANGED <<directory, ledger, origin, receipts, clock>>

\* STEP 2b: check for an existing invoice, with the student's email from MongoDB
Check(a) ==
  /\ agent[a].pc = "check"
  /\ LET st == agent[a]
         student == Get(st.student)
     IN \E fail \in BOOLEAN :
          \E res \in check_invoice_exists(ledger, Some(student.email), clock, fail) :
            LET call == Call("check_invoice_exists", st.i, res.status,
                             [email |-> student.email, exists |-> res.exists,
                              fault |-> fail, now |-> clock, nled |-> Len(ledger)])
            IN agent' = [agent EXCEPT ![a] =
                 IF res.status = "error"
                 THEN Advance(st, Outcome(st.i, "error", "check_invoice_exists", None,
                                          Len(ledger), Len(receipts)), call)
                 ELSE IF res.exists
                 THEN Advance(st, Outcome(st.i, "skipped", "duplicate", res.invoice,
                                          Len(ledger), Len(receipts)), call)
                 ELSE [st EXCEPT !.pc = "create", !.calls = Append(@, call)]]
  /\ UNCHANGED <<directory, ledger, origin, receipts, clock>>

\* STEP 2c: create the invoice
Create(a) ==
  /\ agent[a].pc = "create"
  /\ LET st == agent[a]
         n == st.emails[st.i]
         student == Get(st.student)
     IN \E fail \in BOOLEAN :
          LET res == create_invoice(Some(student.name), Some(student.email), n.amount, n.date_received, clock, fail)
              call == Call("create_invoice", st.i, res.status,
                           [invoice_number |-> res.invoice_number, fault |-> fail])
          IN IF res.status = "ok"
             THEN /\ Len(ledger) < MaxInvoices
                  /\ ledger' = insert_one(ledger, Get(res.doc))
                  /\ origin' = Append(origin, n)
                  /\ agent' = [agent EXCEPT ![a] =
                       [st EXCEPT !.invno = res.invoice_number, !.pc = "send",
                                  !.calls = Append(@, call)]]
             ELSE /\ UNCHANGED <<ledger, origin>>
                  /\ agent' = [agent EXCEPT ![a] =
                       Advance(st, Outcome(st.i, "error", "create_invoice", None,
                                           Len(ledger), Len(receipts)), call)]
  /\ UNCHANGED <<directory, receipts, clock>>

\* STEP 2d: send the thank-you email with the receipt
Send(a) ==
  /\ agent[a].pc = "send"
  /\ LET st == agent[a]
         n == st.emails[st.i]
         student == Get(st.student)
     IN \E fail \in BOOLEAN :
          LET res == send_thank_you_email(Some(student.name), Some(student.email), n.amount, st.invno, n.date_received, fail)
              call == Call("send_thank_you_email", st.i, res.status,
                           [receipt_number |-> st.invno, fault |-> fail])
          IN IF res.status = "ok"
             THEN /\ receipts' = Append(receipts, Get(res.mail))
                  /\ agent' = [agent EXCEPT ![a] =
                       Advance(st, Outcome(st.i, "processed", "receipt_sent", st.invno,
                                           Len(ledger), Len(receipts) + 1), call)]
             ELSE /\ receipts' = receipts
                  /\ agent' = [agent EXCEPT ![a] =
                       Advance(st, Outcome(st.i, "error", "send_thank_you_email", st.invno,
                                           Len(ledger), Len(receipts)), call)]
  /\ UNCHANGED <<directory, ledger, origin, clock>>

\* the agent process ends after its final report; a later run starts afresh
Exit(a) ==
  /\ agent[a].pc = "done"
  /\ agent' = [agent EXCEPT ![a] = IdleAgent]
  /\ UNCHANGED <<directory, ledger, origin, receipts, clock>>

Step(a) == Search(a) \/ Find(a) \/ Check(a) \/ Create(a) \/ Send(a) \/ Exit(a)

\* runs one after the other: a single agent process at a time
Next == Tick \/ Step(1)

Spec == Init /\ [][Next]_vars

\* two agent processes started independently (two terminals, or a scheduled
\* run while a manual one is under way), each making one run over a listing
\* of at most MaxOverlapBatch messages
SearchOverlap(a) == SearchIn(a, {b \in Batches(clock) : Len(b) <= MaxOverlapBatch})

RunOverlap(a) == SearchOverlap(a) \/ Find(a) \/ Check(a) \/ Create(a) \/ Send(a)

NextOverlap == Tick \/ RunOverlap(1) \/ RunOverlap(2)

SpecOverlap == Init /\ [][NextOverlap]_vars

\* one run of the agent from its start to its final report, every tool call
\* of which returns: the step that follows a call is eventually taken
RunStep(a) == Search(a) \/ Find(a) \/ Check(a) \/ Create(a) \/ Send(a)

NextRun == Tick \/ RunStep(1)

SpecRun == Init /\ [][NextRun]_vars /\ WF_vars(RunStep(1))

\* the extraction of search_interac_emails on subject lines of any shape:
\* pieces of subject lines, and the lines made of at most MaxFragments pieces
Fragments ==
  { <<W_received, <<"$", "2", "0">>>>,
    <<W_from>>,
    <<<<"F", "R", "O", "M">>>>,
    <<T_Ab>>,
    <<W_and, W_it, W_has, W_been>>,
    <<W_and>> }

RECURSIVE SubjectsOf(_)
SubjectsOf(n) ==
  IF n = 0 THEN {<<>>}
  ELSE LET shorter == SubjectsOf(n - 1)
       IN shorter \cup {s \o f : s \in shorter, f \in Fragments}

Subjects == SubjectsOf(MaxFragments)

\* a message of which only the subject line is given
SubjectOnly(subject) ==
  [id |-> <<0, 0>>, subject |-> subject, reply_to |-> None, date |-> None]

\* the dictionary search_interac_emails appends for one message
Extracted(raw) ==
  LET d == extract_date_received(raw.date)
  IN [message_id |-> raw.id,
      subject |-> raw.subject,
      reply_to |-> ReplyToField(raw.reply_to),
      date_received |-> IF d = None THEN None ELSE Some(IsoFormat(Get(d))),
      parent_name |-> parse_parent_name(raw.subject),
      amount |-> parse_amount(raw.subject)]

InitExtract ==
  /\ directory = {Student1, Student2}
  /\ ledger = <<>>
  /\ origin = <<>>
  /\ receipts = <<>>
  /\ clock = StartClock
  /\ \E s \in Subjects :
       agent = [a \in Agents |->
                  IF a = 1 THEN [IdleAgent EXCEPT !.listed = <<SubjectOnly(s)>>]
                  ELSE IdleAgent]

Extract(a) ==
  /\ agent[a].pc = "idle"
  /\ Len(agent[a].listed) = 1
  /\ agent' = [agent EXCEPT ![a] = [@ EXCEPT !.pc = "done",
                                             !.status = "ok",
                                             !.emails = <<Extracted(agent[a].listed[1])>>]]
  /\ UNCHANGED <<directory, ledger, origin, receipts, clock>>

NextExtract == Extract(1)

SpecExtract == InitExtract /\ [][NextExtract]_vars

-----------------------------------------------------------------------------
(* Properties.  The predicates below say what the claims mean, without     *)
(* using the tools' own definitions.                                       *)

TheAgent == agent[1]

SameTextI(x, y) == Lower(x) = Lower(y)

CalendarMonth(t) == <<Year(t), Month(t)>>

\* the calls and the outcome of the run's email number k
CallsOf(k) == {c \in 1..Len(TheAgent.calls) : TheAgent.calls[c].i = k}
ToolCallsOf(k, tool) == {c \in CallsOf(k) : TheAgent.calls[c].tool = tool}
OutcomesOf(k) == {o \in 1..Len(TheAgent.outcomes) : TheAgent.outcomes[o].i = k}

\* C1: the ledger holds at most one invoice per (student email compared
\* case-insensitively, UTC calendar month of the fee-paid date).
C1_OneInvoicePerStudentMonth ==
  \A j, k \in 1..Len(ledger) :
    j < k =>
      ~ /\ SameTextI(ledger[j].students.email, ledger[k].students.email)
        /\ CalendarMonth(ledger[j].feepaiddate) = CalendarMonth(ledger[k].feepaiddate)

\* the stored amount string is the decimal string of the amount truncated
IsTruncationOf(str, amount) ==
  /\ Len(str) >= 1
  /\ \A k \in 1..Len(str) : IsDigit(str[k])
  /\ Len(str) = 1 \/ str[1] # "0"
  /\ DigitsToNat(str) = amount.whole

\* the directory record agrees with the notification on all three fields
RecordMatches(rec, n) ==
  /\ n.parent_name # None
  /\ n.amount # None
  /\ SameTextI(rec.ParentName, Get(n.parent_name))
  /\ SameTextI(rec.email, n.reply_to)
  /\ IsTruncationOf(rec.amount, Get(n.amount))

\* led holds an invoice for the email dated in the calendar month of now
InvoicedThisMonth(led, email, now) ==
  \E k \in 1..Len(led) :
    /\ SameTextI(led[k].students.email, email)
    /\ CalendarMonth(led[k].feepaiddate) = CalendarMonth(now)

\* the agent is working on an email of a student who has an invoice dated
\* within the current month
OnInvoicedStudent ==
  /\ TheAgent.pc \in {"find", "check"}
  /\ \E rec \in directory :
       /\ RecordMatches(rec, TheAgent.emails[TheAgent.i])
       /\ InvoicedThisMonth(ledger, rec.email, clock)

NewOutcome == TheAgent'.outcomes[Len(TheAgent'.outcomes)]

GotOutcome == Len(TheAgent'.outcomes) = Len(TheAgent.outcomes) + 1

\* C2 as stated: while the ledger holds an invoice of the student dated within
\* the current month, an email of that student never leads to create_invoice
\* and ends skipped as a duplicate.
C2_DuplicateGuardAsStated ==
  [][OnInvoicedStudent =>
       /\ ledger' = ledger
       /\ TheAgent'.pc # "create"
       /\ GotOutcome =>
            NewOutcome.disposition = "skipped" /\ NewOutcome.reason = "duplicate"]_vars

\* C2 amended: ... never leads to create_invoice, and ends skipped as a
\* duplicate, or as an error when its lookup or its ledger check fails.
C2_DuplicateGuard ==
  [][OnInvoicedStudent =>
       /\ ledger' = ledger
       /\ TheAgent'.pc # "create"
       /\ GotOutcome =>
            \/ NewOutcome.disposition = "skipped" /\ NewOutcome.reason = "duplicate"
            \/ /\ NewOutcome.disposition = "error"
               /\ NewOutcome.reason \in {"find_student_by_parent", "check_invoice_exists"}
               /\ TheAgent'.calls[Len(TheAgent'.calls)].status = "error"]_vars

\* two emails of one run skipped as duplicates of an invoice that was in the
\* ledger before the run
C2_Witness ==
  /\ TheAgent.pc = "done"
  /\ Len(TheAgent.outcomes) = 2
  /\ \A o \in 1..2 :
       /\ TheAgent.outcomes[o].disposition = "skipped"
       /\ TheAgent.outcomes[o].reason = "duplicate"
       /\ TheAgent.outcomes[o].nled = Len(ledger)

FindCall(k) == TheAgent.calls[CHOOSE c \in ToolCallsOf(k, "find_student_by_parent") : TRUE]

SomeRecordMatches(n) == \E rec \in directory : RecordMatches(rec, n)

C4_MonthWindow ==
  \A c \in 1..Len(TheAgent.calls) :
    LET call == TheAgent.calls[c]
    IN (call.tool = "check_invoice_exists" /\ ~call.info.fault) =>
         /\ call.status = "ok"
         /\ call.info.exists <=>
              InvoicedThisMonth(SubSeq(ledger, 1, call.info.nled), call.info.email,
                                call.info.now)

\* t is the first instant of a calendar month
IsMonthStart(t) == CalendarMonth(t - 1) # CalendarMonth(t)

\* one run in which a check in December did not count an invoice dated at
\* the first instant of January, and a check counted an invoice dated at the
\* first instant of the current month
C4_Witness ==
  /\ \E c \in 1..Len(TheAgent.calls) :
       LET call == TheAgent.calls[c]
       IN /\ call.tool = "check_invoice_exists"
          /\ call.status = "ok"
          /\ ~call.info.exists
          /\ Month(call.info.now) = MonthsPerYear
          /\ \E k \in 1..call.info.nled :
               /\ SameTextI(ledger[k].students.email, call.info.email)
               /\ IsMonthStart(ledger[k].feepaiddate)
               /\ ledger[k].feepaiddate > call.info.now
               /\ CalendarMonth(ledger[k].feepaiddate - 1) = CalendarMonth(call.info.now)
  /\ \E c \in 1..Len(TheAgent.calls) :
       LET call == TheAgent.calls[c]
       IN /\ call.tool = "check_invoice_exists"
          /\ call.info.exists
          /\ \A k \in 1..call.info.nled :
               CalendarMonth(ledger[k].feepaiddate) = CalendarMonth(call.info.now)
                 => IsMonthStart(ledger[k].feepaiddate)

\* the positions of the listed messages that are deposit notifications
DepositPositions ==
  {k \in 1..Len(TheAgent.listed) : PoolSubjectFields[TheAgent.listed[k].subject].deposit}

\* C5: a run that retrieved its notifications ends with exactly one outcome for
\* each deposit-notification message listed: none is dropped and none is
\* reported twice.
C5_ReportCompleteness ==
  /\ \A o \in 1..Len(TheAgent.outcomes) : TheAgent.outcomes[o].i = o
  /\ Len(TheAgent.outcomes) <= Cardinality(DepositPositions)
  /\ (TheAgent.pc = "done" /\ TheAgent.status # "search_error") =>
       /\ Len(TheAgent.outcomes) = Cardinality(DepositPositions)
       /\ Len(TheAgent.emails) = Cardinality(DepositPositions)
       /\ \A k \in 1..Len(TheAgent.emails) :
            /\ Cardinality(OutcomesOf(k)) = 1
            /\ \E p \in DepositPositions :
                 TheAgent.emails[k].message_id = TheAgent.listed[p].id

\* a finished run over two listed messages, one of them no deposit
\* notification, with one outcome
C5_Witness ==
  /\ TheAgent.pc = "done"
  /\ Len(TheAgent.listed) = 2
  /\ Cardinality(DepositPositions) = 1
  /\ Len(TheAgent.outcomes) = 1

NoCallFailed(k) == \A c \in CallsOf(k) : TheAgent.calls[c].status # "error"

\* the ledger check made for email k found the student without an invoice in
\* the month of the check
NotYetInvoiced(k) ==
  \A c \in ToolCallsOf(k, "check_invoice_exists") :
    ~InvoicedThisMonth(SubSeq(ledger, 1, TheAgent.calls[c].info.nled),
                       TheAgent.calls[c].info.email, TheAgent.calls[c].info.now)

\* C6: a notification that matches a student in the directory, who has no
\* invoice in the current month, and none of whose tool calls fails, ends
\* processed; the ledger holds exactly one more invoice, for that student, and
\* exactly one receipt was sent, to that student, numbered as the invoice.
C6_HappyPath ==
  \A o \in 1..Len(TheAgent.outcomes) :
    LET out == TheAgent.outcomes[o]
        k == out.i
        n == TheAgent.emails[k]
    IN (SomeRecordMatches(n) /\ NoCallFailed(k) /\ NotYetInvoiced(k)) =>
         /\ out.disposition = "processed"
         /\ out.nled = FindCall(k).info.nled + 1
         /\ out.nrec = FindCall(k).info.nrec + 1
         /\ \E rec \in directory :
              /\ RecordMatches(rec, n)
              /\ ledger[out.nled].students.email = rec.email
              /\ receipts[out.nrec].to = rec.email
         /\ Some(ledger[out.nled].invoicenumber) = out.detail
         /\ Some(receipts[out.nrec].receipt_number) = out.detail

\* a finished run whose notification ended processed
C6_Witness ==
  /\ TheAgent.pc = "done"
  /\ \E o \in 1..Len(TheAgent.outcomes) :
       /\ TheAgent.outcomes[o].disposition = "processed"
       /\ SomeRecordMatches(TheAgent.emails[TheAgent.outcomes[o].i])
       /\ NoCallFailed(TheAgent.outcomes[o].i)

\* C7: every invoice has the amount of the notification it was created for,
\* decimals kept, and not the amount the directory stores; its fee-paid date
\* is that notification's received timestamp.
C7_InvoiceFromNotification ==
  \A k \in 1..Len(ledger) :
    /\ origin[k].amount # None
    /\ origin[k].date_received # None
    /\ ledger[k].totalamount = Get(origin[k].amount)
    /\ IsoFormat(ledger[k].feepaiddate) = Get(origin[k].date_received)

\* an invoice for a payment with decimals, where the directory stores "20"
C7_Witness ==
  \E k \in 1..Len(ledger) :
    /\ ledger[k].totalamount.frac # <<>>
    /\ \E rec \in directory :
         /\ rec.email = ledger[k].students.email
         /\ DigitsToNat(rec.amount) = ledger[k].totalamount.whole

\* the reason of a no-match outcome carries the three values compared: the
\* payer name, the reply-to email and the amount truncated to a whole number
CarriesComparedValues(detail, n) ==
  /\ detail # None
  /\ n.parent_name # None
  /\ n.amount # None
  /\ Get(detail).parent = Get(n.parent_name)
  /\ Get(detail).email = n.reply_to
  /\ IsTruncationOf(Get(detail).amount, Get(n.amount))

\* nothing was written to the ledger and no receipt was sent for email k
NothingCreated(out) ==
  /\ out.nled = FindCall(out.i).info.nled
  /\ out.nrec = FindCall(out.i).info.nrec
  /\ ToolCallsOf(out.i, "create_invoice") = {}
  /\ ToolCallsOf(out.i, "send_thank_you_email") = {}

\* C8 as stated: a notification that no directory record matches on all three
\* fields ends skipped, its reason carrying the three compared values, with no
\* invoice created and no receipt sent for it.
C8_NoMatchAsStated ==
  \A o \in 1..Len(TheAgent.outcomes) :
    LET out == TheAgent.outcomes[o]
        n == TheAgent.emails[out.i]
    IN ~SomeRecordMatches(n) =>
         /\ out.disposition = "skipped"
         /\ out.reason = "no_match"
         /\ CarriesComparedValues(out.detail, n)
         /\ NothingCreated(out)

\* C8: a notification that no directory record matches on all three fields
\* never has an invoice created or a receipt sent; it ends skipped, its reason
\* carrying the three compared values, when the lookup answers that it found
\* no student, and ends error when the lookup returns an error, and these are
\* the only two endings.
C8_NoMatch ==
  \A o \in 1..Len(TheAgent.outcomes) :
    LET out == TheAgent.outcomes[o]
        n == TheAgent.emails[out.i]
    IN ~SomeRecordMatches(n) =>
         /\ NothingCreated(out)
         /\ FindCall(out.i).status \in {"not_found", "error"}
         /\ FindCall(out.i).status = "not_found" =>
              /\ out.disposition = "skipped"
              /\ out.reason = "no_match"
              /\ CarriesComparedValues(out.detail, n)
         /\ FindCall(out.i).status = "error" =>
              /\ out.disposition = "error"
              /\ out.reason = "find_student_by_parent"

\* a finished run in which a payment equal to a record in name and email,
\* but not in amount, ended skipped with the compared values
C8_Witness ==
  /\ TheAgent.pc = "done"
  /\ \E o \in 1..Len(TheAgent.outcomes) :
       LET out == TheAgent.outcomes[o]
           n == TheAgent.emails[out.i]
       IN /\ ~SomeRecordMatches(n)
          /\ out.disposition = "skipped"
          /\ CarriesComparedValues(out.detail, n)
          /\ \E rec \in directory :
               /\ SameTextI(rec.ParentName, Get(n.parent_name))
               /\ SameTextI(rec.email, n.reply_to)

\* C9: a run whose retrieval yields no deposit notification ends at once, with
\* a status that is not the one of a run that processed notifications, with no
\* outcome, and having invoked no tool but the search.
C9_ZeroNotifications ==
  (TheAgent.pc # "idle" /\ DepositPositions = {}) =>
     /\ TheAgent.pc = "done"
     /\ TheAgent.status \in {"none_found", "search_error"}
     /\ TheAgent.status # "ok"
     /\ TheAgent.outcomes = <<>>
     /\ Len(TheAgent.calls) = 1
     /\ TheAgent.calls[1].tool = "search_interac_emails"

\* a finished run with no notification: nothing listed, or only a message
\* that is no deposit notification
C9_Witness ==
  /\ TheAgent.pc = "done"
  /\ TheAgent.status = "none_found"
  /\ Len(TheAgent.listed) = 1
  /\ TheAgent.calls[1].status = "ok"

\* C10: when a tool call for a notification fails, that notification gets an
\* error outcome and no further call; no call is made twice for a
\* notification; only notifications with a failed call get an error outcome;
\* and the run goes on to every later notification.
C10_FailureIsolation ==
  /\ \A c \in 1..Len(TheAgent.calls) :
       LET call == TheAgent.calls[c]
       IN (call.i >= 1 /\ call.status = "error") =>
            /\ \A d \in CallsOf(call.i) : d <= c
            /\ \E o \in OutcomesOf(call.i) :
                 /\ TheAgent.outcomes[o].disposition = "error"
                 /\ TheAgent.outcomes[o].reason = call.tool
            /\ call.i < Len(TheAgent.emails) =>
                 \/ TheAgent.pc = "find" /\ TheAgent.i = call.i + 1
                 \/ ToolCallsOf(call.i + 1, "find_student_by_parent") # {}
  /\ \A c, d \in 1..Len(TheAgent.calls) :
       (c # d /\ TheAgent.calls[c].i = TheAgent.calls[d].i)
         => TheAgent.calls[c].tool # TheAgent.calls[d].tool
  /\ \A o \in 1..Len(TheAgent.outcomes) :
       TheAgent.outcomes[o].disposition = "error"
         => \E c \in CallsOf(TheAgent.outcomes[o].i) : TheAgent.calls[c].status = "error"
  /\ TheAgent.pc = "done" =>
       \A k \in 1..Len(TheAgent.emails) : Cardinality(OutcomesOf(k)) = 1

\* a finished run whose first notification ended error and whose second
\* ended processed
C10_Witness ==
  /\ TheAgent.pc = "done"
  /\ Len(TheAgent.outcomes) = 2
  /\ TheAgent.outcomes[1].disposition = "error"
  /\ TheAgent.outcomes[2].disposition = "processed"

HasExtractionGap(n) == n.parent_name = None \/ n.amount = None

\* C12: a notification whose payer name or amount is null is still produced
\* by the extraction, and its lookup, when the database is reachable, answers
\* that no student was found: the notification ends skipped, not error, and
\* no invoice is created for it.
C12_ExtractionGapsAreNonMatches ==
  \A o \in 1..Len(TheAgent.outcomes) :
    LET out == TheAgent.outcomes[o]
        n == TheAgent.emails[out.i]
    IN (HasExtractionGap(n) /\ ~FindCall(out.i).info.fault) =>
         /\ FindCall(out.i).status = "not_found"
         /\ out.disposition = "skipped"
         /\ NothingCreated(out)

\* the call of the given tool made for notification k, which exists
ToolCall(k, tool) == TheAgent.calls[CHOOSE c \in ToolCallsOf(k, tool) : TRUE]

\* notification k passed the stage of the given tool: the call was made
\* and did not return an error
Passed(k, tool) ==
  /\ ToolCallsOf(k, tool) # {}
  /\ ToolCall(k, tool).status # "error"

Matched(k) == Passed(k, "find_student_by_parent") /\ ToolCall(k, "find_student_by_parent").status = "ok"
Unmatched(k) == Passed(k, "find_student_by_parent") /\ ToolCall(k, "find_student_by_parent").status = "not_found"
Deduped(k) == Passed(k, "check_invoice_exists") /\ ToolCall(k, "check_invoice_exists").info.exists
NotDuplicate(k) == Passed(k, "check_invoice_exists") /\ ~ToolCall(k, "check_invoice_exists").info.exists
Invoiced(k) == Passed(k, "create_invoice")
Receipted(k) == Passed(k, "send_thank_you_email")
StageFailed(k) == \E c \in CallsOf(k) : TheAgent.calls[c].status = "error"

\* C13: the calls for one notification come in the order find, check, create,
\* send; check only after a match, create only after a match and a check
\* that found no invoice, send only after a successful create; every call
\* that the collaborator fails returns an error; and the notification ends
\* processed exactly when it was receipted, skipped exactly when it stopped
\* unmatched or as a duplicate, error exactly when one of its calls returned
\* an error.
C13_StageOrder ==
  /\ \A c, d \in 1..Len(TheAgent.calls) :
       LET x == TheAgent.calls[c]
           y == TheAgent.calls[d]
       IN (c < d /\ x.i = y.i) =>
            \/ x.tool = "find_student_by_parent" /\ y.tool # "find_student_by_parent"
            \/ x.tool = "check_invoice_exists" /\ y.tool \in {"create_invoice", "send_thank_you_email"}
            \/ x.tool = "create_invoice" /\ y.tool = "send_thank_you_email"
  /\ \A c \in 2..Len(TheAgent.calls) :
       LET call == TheAgent.calls[c]
           k == call.i
       IN /\ call.info.fault => call.status = "error"
          /\ call.tool = "check_invoice_exists" => Matched(k)
          /\ call.tool = "create_invoice" => Matched(k) /\ NotDuplicate(k)
          /\ call.tool = "send_thank_you_email" =>
               Matched(k) /\ NotDuplicate(k) /\ Invoiced(k)
  /\ \A o \in 1..Len(TheAgent.outcomes) :
       LET out == TheAgent.outcomes[o]
           k == out.i
       IN /\ out.disposition \in {"processed", "skipped", "error"}
          /\ out.disposition = "processed" <=> Receipted(k)
          /\ out.disposition = "skipped" <=> (Unmatched(k) \/ Deduped(k))
          /\ out.disposition = "error" <=> StageFailed(k)

\* a finished run with one notification processed and another ended error by
\* the failure of its receipt after its invoice was created
C13_Witness ==
  /\ TheAgent.pc = "done"
  /\ \E o \in 1..Len(TheAgent.outcomes) : TheAgent.outcomes[o].disposition = "processed"
  /\ \E o \in 1..Len(TheAgent.outcomes) :
       LET out == TheAgent.outcomes[o]
       IN /\ out.disposition = "error"
          /\ Invoiced(out.i)
          /\ out.nled = FindCall(out.i).info.nled + 1
          /\ out.nrec = FindCall(out.i).info.nrec

CreateCallsBy(a) ==
  {c \in 1..Len(agent[a].calls) : agent[a].calls[c].tool = "create_invoice"}

\* the ledger check agent a made for the notification of its call c
CheckBefore(a, c) ==
  agent[a].calls[CHOOSE d \in 1..c :
                   /\ agent[a].calls[d].tool = "check_invoice_exists"
                   /\ agent[a].calls[d].i = agent[a].calls[c].i]

\* C14: with two runs under way, create_invoice is called on the strength of
\* the caller's own earlier check, which found no invoice, and does not look
\* at the ledger again: it inserts whenever the storage is reachable and the
\* date was extracted, whatever the ledger holds by then.  (The state with
\* two invoices for one student and month that this allows is C14_Witness.)
C14_CheckThenAct ==
  \A a \in Agents :
    \A c \in CreateCallsBy(a) :
      LET call == agent[a].calls[c]
          n == agent[a].emails[call.i]
      IN /\ CheckBefore(a, c).status = "ok"
         /\ ~CheckBefore(a, c).info.exists
         /\ call.status = "ok" <=> (~call.info.fault /\ n.date_received # None)

\* both runs checked while the ledger was empty, both found no invoice, both
\* created one: two invoices for the same student email, dated in the same
\* calendar month, which is the month of both checks
C14_Witness ==
  /\ Len(ledger) = 2
  /\ SameTextI(ledger[1].students.email, ledger[2].students.email)
  /\ CalendarMonth(ledger[1].feepaiddate) = CalendarMonth(ledger[2].feepaiddate)
  /\ \A a \in Agents :
       \E c \in CreateCallsBy(a) :
         /\ agent[a].calls[c].status = "ok"
         /\ CheckBefore(a, c).info.nled = 0
         /\ ~CheckBefore(a, c).info.exists
         /\ SameTextI(CheckBefore(a, c).info.email, ledger[1].students.email)
         /\ CalendarMonth(CheckBefore(a, c).info.now) = CalendarMonth(ledger[1].feepaiddate)

\* no receipt was sent for invoice k of the ledger
Unreceipted(k) ==
  \A r \in 1..Len(receipts) :
    ~ /\ receipts[r].receipt_number = ledger[k].invoicenumber
      /\ receipts[r].to = ledger[k].students.email

\* the ledger holds an invoice for the email, dated in the current month, for
\* which no receipt was sent
OrphanInvoice(email) ==
  \E k \in 1..Len(ledger) :
    /\ SameTextI(ledger[k].students.email, email)
    /\ CalendarMonth(ledger[k].feepaiddate) = CalendarMonth(clock)
    /\ Unreceipted(k)

\* the agent starts on a notification of a student who has such an invoice,
\* left by an earlier notification whose receipt failed
OnOrphanStudent ==
  /\ TheAgent.pc \in {"find", "check"}
  /\ \E rec \in directory :
       /\ RecordMatches(rec, TheAgent.emails[TheAgent.i])
       /\ OrphanInvoice(rec.email)

\* a step that sends a receipt sends it for the invoice that was created for
\* the same notification just before
ReceiptOnlyAfterOwnCreate ==
  receipts' # receipts =>
    /\ TheAgent.pc = "send"
    /\ Invoiced(TheAgent.i)
    /\ Len(receipts') = Len(receipts) + 1
    /\ Some(receipts'[Len(receipts')].receipt_number) =
         ToolCall(TheAgent.i, "create_invoice").info.invoice_number
    /\ receipts'[Len(receipts')].receipt_number = ledger[Len(ledger)].invoicenumber
    /\ origin[Len(ledger)] = TheAgent.emails[TheAgent.i]

\* C15 as stated: an invoice whose receipt failed stays in the ledger, and
\* while its month is current every later notification of that student ends
\* skipped as a duplicate: nothing is created and no receipt is sent.
C15_OrphanAsStated ==
  [][/\ ReceiptOnlyAfterOwnCreate
     /\ OnOrphanStudent =>
          /\ ledger' = ledger
          /\ receipts' = receipts
          /\ TheAgent'.pc \notin {"create", "send"}
          /\ GotOutcome =>
               NewOutcome.disposition = "skipped" /\ NewOutcome.reason = "duplicate"]_vars

\* C15: an invoice whose receipt failed stays in the ledger, and while its
\* month is current every later notification of that student ends skipped as
\* a duplicate, or error when its lookup or its ledger check fails: nothing is
\* created and no receipt is sent; receipts are sent only for the invoice
\* created for the same notification, so none is ever sent for that invoice.
C15_OrphanNeverReceipted ==
  [][/\ ReceiptOnlyAfterOwnCreate
     /\ OnOrphanStudent =>
          /\ ledger' = ledger
          /\ receipts' = receipts
          /\ TheAgent'.pc \notin {"create", "send"}
          /\ GotOutcome =>
               \/ NewOutcome.disposition = "skipped" /\ NewOutcome.reason = "duplicate"
               \/ /\ NewOutcome.disposition = "error"
                  /\ NewOutcome.reason \in {"find_student_by_parent", "check_invoice_exists"}
                  /\ TheAgent'.calls[Len(TheAgent'.calls)].status = "error"]_vars

\* a finished later run: the invoice was in the ledger before the run, no
\* receipt was sent for it, and the student's notification ended skipped as a
\* duplicate of it
C15_Witness ==
  /\ TheAgent.pc = "done"
  /\ \A c \in 1..Len(TheAgent.calls) : TheAgent.calls[c].tool # "create_invoice"
  /\ \E o \in 1..Len(TheAgent.outcomes) :
       LET out == TheAgent.outcomes[o]
       IN /\ out.disposition = "skipped"
          /\ out.reason = "duplicate"
          /\ \E k \in 1..Len(ledger) :
               /\ out.detail = Some(ledger[k])
               /\ Unreceipted(k)
               /\ CalendarMonth(ledger[k].feepaiddate) = CalendarMonth(clock)

\* the addresses the mail is handed to the transport for
DeliveredTo(mail) == {mail.recipients[x] : x \in 1..Len(mail.recipients)}

\* C16: every receipt that was sent went to the audit recipient BCC_EMAIL as
\* well as to the student's email, and every send that returned ok is such a
\* receipt.
C16_AuditRecipient ==
  /\ \A r \in 1..Len(receipts) :
       /\ BCC_EMAIL \in DeliveredTo(receipts[r])
       /\ receipts[r].to \in DeliveredTo(receipts[r])
       /\ \E rec \in directory : receipts[r].to = rec.email
  /\ \A o \in 1..Len(TheAgent.outcomes) :
       LET out == TheAgent.outcomes[o]
       IN (ToolCallsOf(out.i, "send_thank_you_email") # {}
             /\ ToolCall(out.i, "send_thank_you_email").status = "ok") =>
            /\ out.nrec = FindCall(out.i).info.nrec + 1
            /\ BCC_EMAIL \in DeliveredTo(receipts[out.nrec])
            /\ Some(receipts[out.nrec].receipt_number) =
                 ToolCall(out.i, "send_thank_you_email").info.receipt_number

\* a receipt was sent, to a student's email that is not the audit address
C16_Witness ==
  /\ Len(receipts) >= 1
  /\ receipts[1].to # BCC_EMAIL
  /\ Cardinality(DeliveredTo(receipts[1])) = 2
  /\ \E o \in 1..Len(TheAgent.outcomes) :
       /\ TheAgent.outcomes[o].disposition = "processed"
       /\ TheAgent.outcomes[o].nrec = 1

\* the contact emails of the directory records that match notification n
MatchedEmailsOf(n) == {rec.email : rec \in {x \in directory : RecordMatches(x, n)}}

\* C17: the email given to the ledger check, stored in the invoice and used
\* as the recipient of the receipt is the contact email of a directory record
\* that matches the notification, as the directory spells it, also when the
\* notification's reply-to address is spelled in another letter case.
C17_DirectoryEmailUsed ==
  /\ \A c \in 1..Len(TheAgent.calls) :
       LET call == TheAgent.calls[c]
       IN call.tool = "check_invoice_exists" =>
            /\ call.info.email \in MatchedEmailsOf(TheAgent.emails[call.i])
            /\ call.info.email = Get(FindCall(call.i).info.student).email
  /\ \A k \in 1..Len(ledger) :
       ledger[k].students.email \in MatchedEmailsOf(origin[k])
  /\ \A o \in 1..Len(TheAgent.outcomes) :
       LET out == TheAgent.outcomes[o]
       IN out.disposition = "processed" =>
            /\ receipts[out.nrec].to \in MatchedEmailsOf(TheAgent.emails[out.i])
            /\ receipts[out.nrec].to = ledger[out.nled].students.email
            /\ receipts[out.nrec].to = ToolCall(out.i, "check_invoice_exists").info.email

\* a notification whose reply-to address differs from the directory's email
\* in letter case was processed: checked, invoiced and receipted under the
\* directory's spelling
C17_Witness ==
  \E o \in 1..Len(TheAgent.outcomes) :
    LET out == TheAgent.outcomes[o]
        n == TheAgent.emails[out.i]
    IN /\ out.disposition = "processed"
       /\ receipts[out.nrec].to # n.reply_to
       /\ ledger[out.nled].students.email # n.reply_to
       /\ SameTextI(ledger[out.nled].students.email, n.reply_to)

\* the words "and it has been" stand at position q of the subject
PhraseAt(s, q) ==
  /\ q + 3 <= Len(s)
  /\ SameTextI(s[q], W_and)
  /\ SameTextI(s[q + 1], W_it)
  /\ SameTextI(s[q + 2], W_has)
  /\ StartsWithI(s[q + 3], W_been)

\* the token "from" stands at position f of the subject
FromAt(s, f) == f \in 1..Len(s) /\ SameTextI(s[f], W_from)

\* the token "from" at position f follows "received $<amount>"
AmountBefore(s, f) ==
  /\ f >= 3
  /\ EndsWithI(s[f - 2], W_received)
  /\ s[f - 1][1] = "$"
  /\ Len(s[f - 1]) >= 2
  /\ \A j \in 2..Len(s[f - 1]) : s[f - 1][j] = "." \/ IsDigit(s[f - 1][j])

\* the text between position f and position q of the subject
TextBetween(s, f, q) == JoinWords(SubSeq(s, f + 1, q - 1))

\* the (from, phrase) positions of the subject with some text between them
FromPhrasePairs(s) ==
  {fq \in (1..Len(s)) \X (1..Len(s)) :
     fq[1] + 1 < fq[2] /\ FromAt(s, fq[1]) /\ PhraseAt(s, fq[2])}

ExtractedFrom(a) == agent[a].pc = "done" /\ Len(agent[a].listed) = 1 /\ Len(agent[a].emails) = 1

\* C18 as stated: the extracted payer name is the text between a "from" and
\* an "and it has been" of the subject, and is null exactly when the subject
\* holds no such pair.
C18_ExtractionAsStated ==
  ExtractedFrom(1) =>
    LET s == agent[1].listed[1].subject
        name == agent[1].emails[1].parent_name
    IN /\ (name = None) <=> (FromPhrasePairs(s) = {})
       /\ name # None =>
            \E fq \in FromPhrasePairs(s) : Get(name) = TextBetween(s, fq[1], fq[2])

\* C18: the extracted payer name is the text between the first "from" that
\* follows "received $<amount>" and the nearest "and it has been" after it
\* with some text between, and is null exactly when the subject holds no
\* "received $<amount> from <name> and it has been".
C18_Extraction ==
  ExtractedFrom(1) =>
    LET s == agent[1].listed[1].subject
        name == agent[1].emails[1].parent_name
        pairs == {fq \in FromPhrasePairs(s) : AmountBefore(s, fq[1])}
    IN /\ (name = None) <=> (pairs = {})
       /\ name # None =>
            \E fq \in pairs :
              /\ Get(name) = TextBetween(s, fq[1], fq[2])
              /\ \A other \in pairs :
                   /\ fq[1] <= other[1]
                   /\ other[1] = fq[1] => fq[2] <= other[2]

\* a name extracted from a subject that holds the phrase twice
C18_Witness ==
  /\ ExtractedFrom(1)
  /\ agent[1].emails[1].parent_name = Some(T_Ab)
  /\ \E q1, q2 \in 1..Len(agent[1].listed[1].subject) :
       q1 < q2 /\ PhraseAt(agent[1].listed[1].subject, q1)
               /\ PhraseAt(agent[1].listed[1].subject, q2)

\* invoices j and k of the ledger were created at different clock readings
CreatedApart(j, k) == ledger[j].dateissued # ledger[k].dateissued

\* C19: every invoice number is the decimal clock reading at which the
\* invoice was created; two invoices created at different clock readings
\* have different numbers, and when all creation readings differ the invoice
\* numbers of the ledger are pairwise distinct.
C19_InvoiceNumbering ==
  /\ \A k \in 1..Len(ledger) :
       /\ ledger[k].invoicenumber = NatToStr(ledger[k].dateissued)
       /\ ledger[k].dateissued <= clock
  /\ \A j, k \in 1..Len(ledger) :
       CreatedApart(j, k) => ledger[j].invoicenumber # ledger[k].invoicenumber
  /\ (\A j, k \in 1..Len(ledger) : j # k => CreatedApart(j, k))
       => Cardinality({ledger[k].invoicenumber : k \in 1..Len(ledger)}) = Len(ledger)
  /\ \A c \in 1..Len(TheAgent.calls) :
       (TheAgent.calls[c].tool = "create_invoice" /\ TheAgent.calls[c].status = "ok")
         => \E k \in 1..Len(ledger) :
              TheAgent.calls[c].info.invoice_number = Some(ledger[k].invoicenumber)

\* two invoices created at different clock readings
C19_Witness ==
  /\ Len(ledger) = 2
  /\ CreatedApart(1, 2)
  /\ ledger[1].invoicenumber # ledger[2].invoicenumber

\* the step appends a call to the agent's log; the call it appends
MakesCall == Len(agent'[1].calls) = Len(agent[1].calls) + 1
CallMade == agent'[1].calls[Len(agent'[1].calls)]

ReadOnlyTools == {"find_student_by_parent", "check_invoice_exists", "send_thank_you_email"}

\* C20: no step changes the directory; a step that is a call of
\* find_student_by_parent, check_invoice_exists or send_thank_you_email
\* leaves the ledger unchanged; the ledger changes only in a step that is a
\* create_invoice call returning ok, and that step adds exactly one invoice
\* after the existing ones, each of which stays as it was.
C20_Frame ==
  [][/\ directory' = directory
     /\ (MakesCall /\ CallMade.tool \in ReadOnlyTools) => ledger' = ledger
     /\ ledger' # ledger =>
          /\ MakesCall
          /\ CallMade.tool = "create_invoice"
          /\ CallMade.status = "ok"
     /\ (MakesCall /\ CallMade.tool = "create_invoice" /\ CallMade.status = "ok") =>
          /\ Len(ledger') = Len(ledger) + 1
          /\ \A k \in 1..Len(ledger) : ledger'[k] = ledger[k]
          /\ CallMade.info.invoice_number = Some(ledger'[Len(ledger')].invoicenumber)
    ]_vars

\* a second invoice for a student who already has one has been added, the
\* first still in place, and the run has gone on to send its receipt
C20_Witness ==
  /\ Len(ledger) = 2
  /\ ledger[1].students.email = ledger[2].students.email
  /\ ledger[1].dateissued < ledger[2].dateissued
  /\ \E c \in 1..Len(TheAgent.calls) :
       /\ TheAgent.calls[c].tool = "send_thank_you_email"
       /\ TheAgent.calls[c].info.receipt_number = Some(ledger[2].invoicenumber)

TerminalDispositions == {"processed", "skipped", "error"}

\* the run has ended with its report: every retrieved notification has
\* exactly one outcome, a terminal one
Finished ==
  /\ TheAgent.pc = "done"
  /\ TheAgent.status \in {"ok", "none_found", "search_error"}
  /\ Len(TheAgent.emails) = Cardinality(DepositPositions)
  /\ \A k \in 1..Len(TheAgent.emails) :
       /\ Cardinality(OutcomesOf(k)) = 1
       /\ \A o \in OutcomesOf(k) :
            TheAgent.outcomes[o].disposition \in TerminalDispositions

\* notifications are taken one at a time and in order: outcome o is that of
\* notification o, the calls are logged in the order of the notifications,
\* and no call is made for a notification before the one before it has its
\* outcome, nor after it has its own
OneAtATime ==
  /\ \A o \in 1..Len(TheAgent.outcomes) : TheAgent.outcomes[o].i = o
  /\ \A c, d \in 1..Len(TheAgent.calls) :
       c < d => TheAgent.calls[c].i <= TheAgent.calls[d].i
  /\ \A c \in 1..Len(TheAgent.calls) :
       TheAgent.calls[c].i <= Len(TheAgent.outcomes) + 1
  /\ TheAgent.pc \in {"find", "check", "create", "send"} =>
       /\ TheAgent.i = Len(TheAgent.outcomes) + 1
       /\ TheAgent.i <= Len(TheAgent.emails)

\* C21: a run, every call of which returns, eventually ends with its report,
\* every retrieved notification having exactly one terminal disposition; and
\* all along the notifications are taken strictly one at a time.
C21_Termination == []OneAtATime /\ <>Finished

\* a run over two notifications at its end
C21_Witness ==
  /\ Finished
  /\ Len(TheAgent.emails) = 2
  /\ TheAgent.outcomes[1].disposition = "error"
  /\ TheAgent.outcomes[2].disposition = "skipped"

\* the calls of the run under way that created an invoice
CreatedBy == {c \in CreateCallsBy(1) : TheAgent.calls[c].status = "ok"}

\* the invoice that call c of CreatedBy added to the ledger
InvoiceOf(c) == ledger[FindCall(TheAgent.calls[c].i).info.nled + 1]

\* check call d comes after create call c, asks about the email of c's
\* invoice, and reads the clock in the month of that invoice's fee-paid date
LaterCheckInMonth(c, d) ==
  /\ c < d
  /\ TheAgent.calls[d].tool = "check_invoice_exists"
  /\ SameTextI(TheAgent.calls[d].info.email, InvoiceOf(c).students.email)
  /\ CalendarMonth(InvoiceOf(c).feepaiddate) = CalendarMonth(TheAgent.calls[d].info.now)

\* C22: within one run, after create_invoice has succeeded for a student's
\* email, every later check_invoice_exists for that email which the database
\* answers, made while the month of that invoice's fee-paid date is the
\* current month, returns exists = true; so no second invoice is created in
\* the run for that student on the strength of such a check.
C22_OneInvoicePerStudentPerRun ==
  \A c \in CreatedBy :
    /\ InvoiceOf(c).invoicenumber = Get(TheAgent.calls[c].info.invoice_number)
    /\ \A d \in 1..Len(TheAgent.calls) :
         LaterCheckInMonth(c, d) =>
           /\ ~TheAgent.calls[d].info.fault =>
                /\ TheAgent.calls[d].status = "ok"
                /\ TheAgent.calls[d].info.exists
           /\ \A e \in CreateCallsBy(1) :
                TheAgent.calls[e].i # TheAgent.calls[d].i

\* a run in which the second notification of a student was checked after the
\* first had got its invoice, and the check found that invoice
C22_Witness ==
  \E c \in CreatedBy :
    \E d \in 1..Len(TheAgent.calls) :
      /\ LaterCheckInMonth(c, d)
      /\ TheAgent.calls[d].info.exists
      /\ TheAgent.pc = "done"
      /\ Len(ledger) = 1

\* receipt mail carries the number, the student email and the amount of
\* invoice k of the ledger, and the payment date of its notification
CarriesInvoice(mail, k) ==
  /\ mail.receipt_number = ledger[k].invoicenumber
  /\ mail.to = ledger[k].students.email
  /\ mail.amount = ledger[k].totalamount
  /\ mail.amount = Get(origin[k].amount)
  /\ mail.paid_on = ledger[k].feepaiddate

\* every receipt issued is that of an invoice of the ledger, and a
\* notification that ended processed has the receipt of the invoice that was
\* created for it
ReceiptsCarryInvoices ==
  /\ Len(receipts) <= Len(ledger)
  /\ \A r \in 1..Len(receipts) :
       \E k \in 1..Len(ledger) : CarriesInvoice(receipts[r], k)
  /\ \A o \in 1..Len(TheAgent.outcomes) :
       LET out == TheAgent.outcomes[o]
       IN out.disposition = "processed" =>
            /\ CarriesInvoice(receipts[out.nrec], out.nled)
            /\ origin[out.nled] = TheAgent.emails[out.i]
            /\ out.detail = Some(ledger[out.nled].invoicenumber)

\* C23: every receipt issued carries the invoice number, student email and
\* amount of an invoice that is in the ledger and was created before it for
\* the same notification, and no invoice number is receipted more than once.
C23_ReceiptsMatchInvoices ==
  /\ ReceiptsCarryInvoices
  /\ \A r, q \in 1..Len(receipts) :
       r # q => receipts[r].receipt_number # receipts[q].receipt_number

\* the create_invoice calls of the run that returned an error
FailedCreates ==
  {c \in CreateCallsBy(1) : TheAgent.calls[c].status = "error"}

\* C24: create_invoice returns an error whenever the storage fails or the
\* notification has no received timestamp; the step in which it returns an
\* error leaves the ledger and the receipts as they were and gives the
\* notification the disposition error; and no receipt is ever sent for a
\* notification whose create_invoice returned an error.
C24_CreateFailure ==
  /\ [](\A c \in FailedCreates :
          LET k == TheAgent.calls[c].i
          IN /\ ToolCallsOf(k, "send_thank_you_email") = {}
             /\ \A o \in OutcomesOf(k) :
                  /\ TheAgent.outcomes[o].disposition = "error"
                  /\ TheAgent.outcomes[o].nled = FindCall(k).info.nled
                  /\ TheAgent.outcomes[o].nrec = FindCall(k).info.nrec)
  /\ [][(MakesCall /\ CallMade.tool = "create_invoice") =>
          /\ ( \/ CallMade.info.fault
               \/ TheAgent.emails[TheAgent.i].date_received = None )
               => CallMade.status = "error"
          /\ CallMade.status = "error" =>
               /\ CallMade.info.invoice_number = None
               /\ ledger' = ledger
               /\ origin' = origin
               /\ receipts' = receipts
               /\ GotOutcome
               /\ NewOutcome.i = TheAgent.i
               /\ NewOutcome.disposition = "error"
               /\ NewOutcome.reason = "create_invoice"
               /\ TheAgent'.pc \in {"find", "done"}
               /\ TheAgent'.pc = "find" => TheAgent'.i = TheAgent.i + 1
      ]_vars

\* a finished run with one notification whose create_invoice failed for want
\* of a received timestamp and another whose create_invoice failed in storage
C24_Witness ==
  /\ TheAgent.pc = "done"
  /\ ledger = <<>>
  /\ receipts = <<>>
  /\ \E c, d \in FailedCreates :
       /\ ~TheAgent.calls[c].info.fault
       /\ TheAgent.emails[TheAgent.calls[c].i].date_received = None
       /\ TheAgent.calls[d].info.fault
       /\ TheAgent.emails[TheAgent.calls[d].i].date_received # None
       /\ \A k \in {TheAgent.calls[c].i, TheAgent.calls[d].i} :
            \E o \in OutcomesOf(k) : TheAgent.outcomes[o].disposition = "error"

====
